---- MODULE Spec2Model ----
(***************************************************************************)
(* A model of serialinstrument.py: the SerialInstrument handle over an     *)
(* RS-232 transport (write / poll-and-read / query, construction,          *)
(* classification, teardown), the Multimeter measurement and the           *)
(* PowerSupply output control with its cache of device-side state.         *)
(*                                                                         *)
(* Four specifications share the variables:                                *)
(*   Spec       handles on transports: construction, classification, the   *)
(*              generic operations, teardown;                              *)
(*   SpecPS     one power supply on an open transport and the device       *)
(*              behind it: set_output_voltage / set_output_current;        *)
(*   SpecQuery  one handle on an open transport at the level of bytes:     *)
(*              write_to_serial, read_from_serial, query_serial;           *)
(*   SpecMeasure  a multimeter on an open transport at the level of bytes: *)
(*              measure_vdc, measure_adc, read_from_serial.                *)
(***************************************************************************)
EXTENDS Integers, Sequences, FiniteSets, TLC

VARIABLES
    debug,      \* the module global `debug`
    ser,        \* Spec: transport -> "absent" | "open" | "closed"
    handles,    \* Spec: handle slot -> the SerialInstrument object in it
    lastOp,     \* Spec: the operation performed last and what it wrote
    psCache,    \* SpecPS: the PowerSupply's _output_state, _selected_output, _voltage_output_range
    dev,        \* SpecPS: the state of the device behind the transport
    calls,      \* SpecPS: the calls made so far, each with its writes
    inbuf,      \* SpecQuery: bytes waiting in the transport's input buffer
    inflight,   \* SpecQuery: bytes the device has yet to deliver
    lastQ       \* SpecQuery: the operation performed last and its outcome

vars == <<debug, ser, handles, lastOp, psCache, dev, calls, inbuf, inflight, lastQ>>

None == "None"

Last(s) == s[Len(s)]

Count(s, x) == Cardinality({i \in DOMAIN s : s[i] = x})

Has(s, x) == \E i \in DOMAIN s : s[i] = x

Min(a, b) == IF a < b THEN a ELSE b

(***************************************************************************)
(* PowerSupply                                                             *)
(***************************************************************************)

\* outputs = Enum('outputs', 'out1 out2')
outputs == {"out1", "out2"}

\* voltage_range = Enum('voltage_range', 'low high')
voltage_range == {"low", "high"}

\* The 8.0 of set_output_voltage, in volts.
RangeThreshold == 8

\* The 20.0 set_output_current forces, in volts.
ForcedVoltage == 20

\* How many calls a behaviour of SpecPS makes.
MaxCalls == 3

\* The values the calls are made with (floats of whole volts or amperes).
Values == {-9, 5, 6, 8, 9}

Abs(x) == IF x < 0 THEN -x ELSE x

\* str() of a float holding a whole number: str(5.0) = '5.0'.
Str(v) == ToString(v) \o ".0"

\* The cache a PowerSupply's constructor sets up.
PowerSupplyInit ==
    [output_state |-> [p \in outputs |-> FALSE],
     selected_output |-> None,
     voltage_output_range |-> None]

\* RangeStep with the threshold off by one: 8.0 itself still counts as low.
RangeStepInclusive(c, v) ==
    IF Abs(v) <= RangeThreshold /\ c.voltage_output_range # "low"
    THEN [cache |-> [c EXCEPT !.voltage_output_range = "low"],
          writes |-> <<":volt:rang low">>]
    ELSE IF Abs(v) > RangeThreshold /\ c.voltage_output_range # "high"
    THEN [cache |-> [c EXCEPT !.voltage_output_range = "high"],
          writes |-> <<":volt:rang high">>]
    ELSE [cache |-> c, writes |-> <<>>]

\* The first if/elif of set_output_voltage.
RangeStep(c, v) ==
    IF Abs(v) < RangeThreshold /\ c.voltage_output_range # "low"
    THEN [cache |-> [c EXCEPT !.voltage_output_range = "low"],
          writes |-> <<":volt:rang low">>]
    ELSE IF Abs(v) >= RangeThreshold /\ c.voltage_output_range # "high"
    THEN [cache |-> [c EXCEPT !.voltage_output_range = "high"],
          writes |-> <<":volt:rang high">>]
    ELSE [cache |-> c, writes |-> <<>>]

\* OutputOnStep recording in the cache that the output was switched on.
OutputOnStepCaching(c, port) ==
    IF c.output_state[port] = FALSE
    THEN [cache |-> [c EXCEPT !.output_state[port] = TRUE], writes |-> <<":outp:stat on">>]
    ELSE [cache |-> c, writes |-> <<>>]

\* `if self._output_state[output_port] is False`: the write, and the cache as it is left.
OutputOnStep(c, port) ==
    IF c.output_state[port] = FALSE
    THEN [cache |-> c, writes |-> <<":outp:stat on">>]
    ELSE [cache |-> c, writes |-> <<>>]

\* `if self._selected_output != output_port`.
SelectStep(c, port) ==
    IF c.selected_output # port
    THEN [cache |-> [c EXCEPT !.selected_output = port],
          writes |-> <<":inst:sel " \o port>>]
    ELSE [cache |-> c, writes |-> <<>>]

\* set_output_voltage(output_voltage, output_port): the cache it leaves and its writes in order.
SetOutputVoltage(c, v, port) ==
    LET r == RangeStep(c, v)
        o == OutputOnStep(r.cache, port)
        s == SelectStep(o.cache, port)
    IN  [cache |-> s.cache,
         writes |-> r.writes \o o.writes \o s.writes \o <<":volt " \o Str(v)>>]

\* set_output_current(output_current, output_port).
SetOutputCurrent(c, i, port) ==
    LET a == SetOutputVoltage(c, ForcedVoltage, port)
        o == OutputOnStep(a.cache, port)
        s == SelectStep(o.cache, port)
    IN  [cache |-> s.cache,
         writes |-> a.writes \o o.writes \o s.writes \o <<":curr " \o Str(i)>>]

(***************************************************************************)
(* The device behind a power supply's transport.  Its selected output is   *)
(* the one named by the last :inst:sel it received; :volt:rang and         *)
(* :outp:stat apply to the output selected when they arrive.               *)
(***************************************************************************)

\* The device after *RST.
DeviceReset ==
    [selected |-> None,
     range |-> [p \in outputs |-> None],
     on |-> [p \in outputs |-> FALSE]]

\* The device after one command line.
DeviceApply(d, cmd) ==
    IF \E p \in outputs : cmd = ":inst:sel " \o p
    THEN [d EXCEPT !.selected = CHOOSE p \in outputs : cmd = ":inst:sel " \o p]
    ELSE IF cmd = "*RST" THEN DeviceReset
    ELSE IF d.selected = None THEN d
    ELSE IF cmd = ":volt:rang low" THEN [d EXCEPT !.range[d.selected] = "low"]
    ELSE IF cmd = ":volt:rang high" THEN [d EXCEPT !.range[d.selected] = "high"]
    ELSE IF cmd = ":outp:stat on" THEN [d EXCEPT !.on[d.selected] = TRUE]
    ELSE d

\* The device after the command lines ws, in order.
RECURSIVE DeviceRun(_, _)
DeviceRun(d, ws) ==
    IF ws = <<>> THEN d ELSE DeviceRun(DeviceApply(d, Head(ws)), Tail(ws))

\* The output selected on the device as each line of ws arrives.
SelectedAt(d, ws) ==
    [i \in DOMAIN ws |-> DeviceRun(d, SubSeq(ws, 1, i - 1)).selected]

\* The record of one call: what it was, the cache before and after, its writes.
CallRecord(op, v, port, pre, res, d) ==
    [op |-> op, value |-> v, port |-> port, pre |-> pre, post |-> res.cache,
     writes |-> res.writes, selectedAt |-> SelectedAt(d, res.writes),
     devRange |-> DeviceRun(d, res.writes).range[port]]

set_output_voltage(v, port) ==
    LET res == SetOutputVoltage(psCache, v, port) IN
    /\ Len(calls) < MaxCalls
    /\ UNCHANGED <<debug, ser, handles, lastOp, inbuf, inflight, lastQ>>
    /\ psCache' = res.cache
    /\ dev' = DeviceRun(dev, res.writes)
    /\ calls' = Append(calls, CallRecord("set_output_voltage", v, port, psCache, res, dev))

set_output_current(i, port) ==
    LET res == SetOutputCurrent(psCache, i, port) IN
    /\ Len(calls) < MaxCalls
    /\ UNCHANGED <<debug, ser, handles, lastOp, inbuf, inflight, lastQ>>
    /\ psCache' = res.cache
    /\ dev' = DeviceRun(dev, res.writes)
    /\ calls' = Append(calls, CallRecord("set_output_current", i, port, psCache, res, dev))

(***************************************************************************)
(* SerialInstrument: handles on transports.  What the device replies is    *)
(* the environment's choice; here a reply is what read_from_serial makes   *)
(* of it: the decoded, stripped text, or DecodeError when the bytes read   *)
(* are not valid UTF-8.                                                    *)
(***************************************************************************)

multimeters == {"HEWLETT-PACKARD,34401A,0,11-5-2", "HEWLETT-PACKARD,34401A,0,10-5-2"}

function_generators == {"HEWLETT-PACKARD,33120A,0,10.0-5.0-1.0"}

power_supplies == {"Agilent Technologies,E3646A,0,1.4-5.0-1.0"}

\* The ports a behaviour opens: one whose name is longer than five characters, one shorter.
Ports == {"/dev/ttyS0", "COM3"}

\* How many handles a behaviour constructs.
MaxHandles == 2

DecodeError == "UnicodeDecodeError"

\* What a read after *IDN? may return: a known instrument of each kind, an unknown one,
\* or bytes that do not decode.
IdentityReplies ==
    {"HEWLETT-PACKARD,34401A,0,10-5-2", "HEWLETT-PACKARD,33120A,0,10.0-5.0-1.0",
     "Agilent Technologies,E3646A,0,1.4-5.0-1.0", "ACME,X1,0,1.0", DecodeError}

\* What a read after :SYST:ERR? may return.
ErrorReplies == {"+0,\"No error\"", DecodeError}

\* What a read after a line of the caller's may return.
TextReplies == {"+1.0E+00", DecodeError}

\* The command lines a caller passes to write_to_serial, query_serial and the REPL.
UserCommands == {"read?", ""}

\* The lines a caller hands to a handle's write_to_serial and query_serial.
CallerLines == {"read?", "*IDN?"}

Handles == 1 .. MaxHandles

\* No handle: what classify_instrument returns for an identity it does not know.
NoHandle == 0

FreeSlot == [state |-> "free", cls |-> None, port |-> None, ser |-> None, identity |-> None]

\* The result of an operation on a transport: its state after, the lines written, how it ended.
Result(s, ws, outcome, value) == [ser |-> s, writes |-> ws, outcome |-> outcome, value |-> value]

\* write_to_serial(string) on a transport in state s: pyserial raises on a closed port.
WriteLine(s, string) ==
    IF s = "open" THEN Result(s, <<string>>, "ok", None)
    ELSE Result(s, <<>>, "raised", None)

\* read_from_serial() on a transport in state s, the device's bytes decoding to reply.
ReadLine(s, reply) ==
    IF s # "open" \/ reply = DecodeError THEN Result(s, <<>>, "raised", None)
    ELSE Result(s, <<>>, "ok", reply)

\* query_serial(string): the write, the read, and under debug the error query and its read.
QueryLine(s, string, reply, errReply) ==
    LET w == WriteLine(s, string)
        r == ReadLine(s, reply)
        e == ReadLine(s, errReply)
    IN  IF w.outcome = "raised" THEN w
        ELSE IF r.outcome = "raised" THEN Result(s, w.writes, "raised", None)
        ELSE IF ~debug THEN Result(s, w.writes, "ok", r.value)
        ELSE IF e.outcome = "raised" THEN Result(s, w.writes \o <<":SYST:ERR?">>, "raised", None)
        ELSE Result(s, w.writes \o <<":SYST:ERR?">>, "ok", r.value)

\* display_text(text)
DisplayLine(text) == ":DISP:TEXT '" \o text \o "'"

\* port[5:]
PortLabel(port) == SubSeq(port, 6, Len(port))

\* Construct asking for the identity before it sets the instrument remote.
ConstructIdentityFirst(cls, port, s0, reopened, reply, errReply) ==
    LET s == IF s0 = "open" \/ reopened THEN "open" ELSE "closed"
        rem == WriteLine(s, ":SYST:REM")
        disp == IF debug /\ port # None THEN <<DisplayLine(PortLabel(port))>> ELSE <<>>
        idn == QueryLine(s, "*IDN?", reply, errReply)
        rst == IF cls = "PowerSupply" THEN <<"*RST">> ELSE <<>>
    IN  IF rem.outcome = "raised" THEN Result(s, <<>>, "raised", None)
        ELSE IF idn.outcome = "raised"
        THEN Result(s, idn.writes, "raised", None)
        ELSE Result(s, idn.writes \o rem.writes \o disp \o rst, "ok", idn.value)

\* __init__ from its `if not self._ser.isOpen()` on, for a handle of class cls on a
\* transport in state s0: reopened tells whether open() succeeds on a closed one.
Construct(cls, port, s0, reopened, reply, errReply) ==
    LET s == IF s0 = "open" \/ reopened THEN "open" ELSE "closed"
        rem == WriteLine(s, ":SYST:REM")
        disp == IF debug /\ port # None THEN <<DisplayLine(PortLabel(port))>> ELSE <<>>
        idn == QueryLine(s, "*IDN?", reply, errReply)
        rst == IF cls = "PowerSupply" THEN <<"*RST">> ELSE <<>>
    IN  IF rem.outcome = "raised" THEN Result(s, <<>>, "raised", None)
        ELSE IF idn.outcome = "raised"
        THEN Result(s, rem.writes \o disp \o idn.writes, "raised", None)
        ELSE Result(s, rem.writes \o disp \o idn.writes \o rst, "ok", idn.value)

\* ClassOf with the function generators' and the power supplies' branches exchanged.
ClassOfExchanged(identity) ==
    IF identity \in multimeters THEN "Multimeter"
    ELSE IF identity \in function_generators THEN "PowerSupply"
    ELSE IF identity \in power_supplies THEN "FunctionGenerator"
    ELSE None

\* The class classify_instrument picks for an identity, None when it returns None.
ClassOf(identity) ==
    IF identity \in multimeters THEN "Multimeter"
    ELSE IF identity \in function_generators THEN "FunctionGenerator"
    ELSE IF identity \in power_supplies THEN "PowerSupply"
    ELSE None

\* Release that resets and sets local whatever the transport's state, and closes it.
ReleaseUnguarded(s) == Result("closed", <<"*RST", ":SYST:LOC">>, "ok", None)

\* __del__ on a transport in state s.
Release(s) ==
    IF s = "open" THEN Result("closed", <<"*RST", ":SYST:LOC">>, "ok", None)
    ELSE Result(s, <<>>, "ok", None)

OnlyHandles == UNCHANGED <<debug, psCache, dev, calls, inbuf, inflight, lastQ>>

\* The lowest free slot.
NextSlot == CHOOSE h \in Handles : handles[h].state = "free" /\ \A g \in Handles : g < h => handles[g].state # "free"

HasFreeSlot == \E h \in Handles : handles[h].state = "free"

Live(h) == handles[h].state = "live"

Op(kind, h, writer, before, res, new) ==
    [kind |-> kind, handle |-> h, writer |-> writer, before |-> before,
     writes |-> res.writes, outcome |-> res.outcome, value |-> res.value, new |-> new]

\* A handle whose construction ran to its end is live; one whose construction raised is
\* garbage: nothing can use it, and its __del__ runs when the collector reaches it.
Constructed(cls, port, p, res) ==
    [state |-> IF res.outcome = "ok" THEN "live" ELSE "garbage",
     cls |-> cls, port |-> port, ser |-> p, identity |-> res.value]

\* SerialInstrument(port = p): serial.Serial(port = p) opens the port or raises.
Open(p, opened, reply, errReply) ==
    /\ HasFreeSlot
    /\ ser[p] = "absent"
    /\ OnlyHandles
    /\ IF ~opened
       THEN /\ lastOp' = Op("open", NoHandle, NoHandle, ser[p], Result(ser[p], <<>>, "raised", None), NoHandle)
            /\ UNCHANGED <<ser, handles>>
       ELSE LET h == NextSlot
                res == Construct("SerialInstrument", p, "open", FALSE, reply, errReply)
            IN  /\ ser' = [ser EXCEPT ![p] = res.ser]
                /\ handles' = [handles EXCEPT ![h] = Constructed("SerialInstrument", p, p, res)]
                /\ lastOp' = Op("open", NoHandle, h, "open", res, h)

\* classify_instrument() on handle h.
ClassifyInstrument(h, reopened, reply, errReply) ==
    LET cls == ClassOf(handles[h].identity)
        p == handles[h].ser
        n == NextSlot
        res == Construct(cls, None, ser[p], reopened, reply, errReply)
    IN  /\ Live(h)
        /\ OnlyHandles
        /\ IF cls = None
           THEN /\ lastOp' = Op("classify", h, NoHandle, ser[p], Result(ser[p], <<>>, "none", None), NoHandle)
                /\ UNCHANGED <<ser, handles>>
           ELSE /\ HasFreeSlot
                /\ ser' = [ser EXCEPT ![p] = res.ser]
                /\ handles' = [handles EXCEPT ![n] = Constructed(cls, None, p, res)]
                /\ lastOp' = Op("classify", h, n, ser[p], res, n)

\* An operation of handle h that leaves the handles as they are.
Perform(kind, h, res) ==
    /\ Live(h)
    /\ lastOp' = Op(kind, h, h, ser[handles[h].ser], res, NoHandle)
    /\ UNCHANGED <<ser, handles>>
    /\ OnlyHandles

WriteToSerial(h, cmd) == Perform("write_to_serial", h, WriteLine(ser[handles[h].ser], cmd))

ReadFromSerial(h, reply) == Perform("read_from_serial", h, ReadLine(ser[handles[h].ser], reply))

QuerySerial(h, cmd, reply, errReply) ==
    Perform("query_serial", h, QueryLine(ser[handles[h].ser], cmd, reply, errReply))

DisplayText(h, text) == Perform("display_text", h, WriteLine(ser[handles[h].ser], DisplayLine(text)))

SetLocal(h) == Perform("set_local", h, WriteLine(ser[handles[h].ser], ":SYST:LOC"))

SetRemote(h) == Perform("set_remote", h, WriteLine(ser[handles[h].ser], ":SYST:REM"))

GetIdentity(h, reply, errReply) ==
    Perform("get_identity", h, QueryLine(ser[handles[h].ser], "*IDN?", reply, errReply))

Reset(h) == Perform("reset", h, WriteLine(ser[handles[h].ser], "*RST"))

\* The slot of an object that is gone: of what it held, the model keeps the transport it was
\* on and the port name it was constructed with.
Released(o) == [FreeSlot EXCEPT !.state = "released", !.port = o.port, !.ser = o.ser]

\* __del__ of handle h, live or garbage.
Teardown(h) ==
    LET p == handles[h].ser
        res == Release(ser[p])
    IN  /\ handles[h].state \in {"live", "garbage"}
        /\ OnlyHandles
        /\ ser' = [ser EXCEPT ![p] = res.ser]
        /\ handles' = [handles EXCEPT ![h] = Released(handles[h])]
        /\ lastOp' = Op("teardown", h, h, ser[p], res, NoHandle)

(***************************************************************************)
(* The transport at the level of bytes.  A byte is a number in 0 .. 255, a *)
(* text a sequence of code points.  The device's reply to a line goes into *)
(* inflight and reaches the input buffer later; how much of it has arrived *)
(* when read_from_serial polls is the environment's choice.                *)
(***************************************************************************)

\* self._line_terminator, '\r\n' by default, encoded.
line_terminator == <<13, 10>>

\* The longest backlog of unread bytes at which a behaviour still writes.
MaxBacklog == 1

\* The longest reply to a line of the caller's.
MaxReplyLen == 2

\* The bytes of those replies: 'A' and the two bytes of U+00A0, a space to str.strip();
\* either of the two alone is not valid UTF-8.
ReplyBytes == {65, 194, 160}

RECURSIVE SeqsUpTo(_, _)
SeqsUpTo(S, n) ==
    IF n = 0 THEN {<<>>}
    ELSE LET shorter == SeqsUpTo(S, n - 1)
         IN  shorter \cup {Append(q, x) : q \in shorter, x \in S}

\* What the device may reply to a line of the caller's.
Replies == SeqsUpTo(ReplyBytes, MaxReplyLen)

\* What the device may reply to :SYST:ERR?: '+0,"No error"' CR LF, '-1' CR LF, or noise.
ErrorRepliesBytes ==
    {<<43, 48, 44, 34, 78, 111, 32, 101, 114, 114, 111, 114, 34, 13, 10>>,
     <<45, 49, 13, 10>>, <<255>>}

\* How many bytes arrive while a read polls, of the len on their way: none, half, all.
Arrivals(len) == {0, len \div 2, len}

\* What the device may reply to read?:
\* '+1.234560E+00', '1.0,2.0,3.0', '1.0,bad,3.0', ' 2.5 ,-4e1' each with CR LF, and noise.
MeasureReplies ==
    {<<43, 49, 46, 50, 51, 52, 53, 54, 48, 69, 43, 48, 48, 13, 10>>,
     <<49, 46, 48, 44, 50, 46, 48, 44, 51, 46, 48, 13, 10>>,
     <<49, 46, 48, 44, 98, 97, 100, 44, 51, 46, 48, 13, 10>>,
     <<32, 50, 46, 53, 32, 44, 45, 52, 101, 49, 13, 10>>,
     <<50, 255>>}

Continuation(b) == b \in 128 .. 191

\* How many bytes the UTF-8 sequence at the head of bs takes, 0 when it is not one.
Utf8Length(bs) ==
    LET b == bs[1]
        second(lo, hi) == Len(bs) >= 2 /\ bs[2] \in lo .. hi
        tail(n) == Len(bs) >= n /\ \A i \in 3 .. n : Continuation(bs[i])
    IN  IF b < 128 THEN 1
        ELSE IF b \in 194 .. 223 THEN (IF second(128, 191) THEN 2 ELSE 0)
        ELSE IF b = 224 THEN (IF second(160, 191) /\ tail(3) THEN 3 ELSE 0)
        ELSE IF b = 237 THEN (IF second(128, 159) /\ tail(3) THEN 3 ELSE 0)
        ELSE IF b \in 225 .. 239 THEN (IF second(128, 191) /\ tail(3) THEN 3 ELSE 0)
        ELSE IF b = 240 THEN (IF second(144, 191) /\ tail(4) THEN 4 ELSE 0)
        ELSE IF b \in 241 .. 243 THEN (IF second(128, 191) /\ tail(4) THEN 4 ELSE 0)
        ELSE IF b = 244 THEN (IF second(128, 143) /\ tail(4) THEN 4 ELSE 0)
        ELSE 0

\* The code point of the n-byte UTF-8 sequence at the head of bs.
Utf8CodePoint(bs, n) ==
    IF n = 1 THEN bs[1]
    ELSE IF n = 2 THEN (bs[1] - 192) * 64 + (bs[2] - 128)
    ELSE IF n = 3 THEN (bs[1] - 224) * 4096 + (bs[2] - 128) * 64 + (bs[3] - 128)
    ELSE (bs[1] - 240) * 262144 + (bs[2] - 128) * 4096 + (bs[3] - 128) * 64 + (bs[4] - 128)

\* Whether output.decode('utf-8') succeeds.
RECURSIVE Utf8Valid(_)
Utf8Valid(bs) ==
    \/ bs = <<>>
    \/ /\ Utf8Length(bs) > 0
       /\ Utf8Valid(SubSeq(bs, Utf8Length(bs) + 1, Len(bs)))

\* output.decode('utf-8') of valid bytes.
RECURSIVE Utf8Decode(_)
Utf8Decode(bs) ==
    IF bs = <<>> THEN <<>>
    ELSE LET n == Utf8Length(bs)
         IN  <<Utf8CodePoint(bs, n)>> \o Utf8Decode(SubSeq(bs, n + 1, Len(bs)))

\* str.isspace of one code point.
IsSpace(c) ==
    c \in (9 .. 13) \cup (28 .. 32) \cup {133, 160, 5760} \cup (8192 .. 8202)
          \cup {8232, 8233, 8239, 8287, 12288}

RECURSIVE LStrip(_)
LStrip(t) == IF t # <<>> /\ IsSpace(Head(t)) THEN LStrip(Tail(t)) ELSE t

RECURSIVE RStrip(_)
RStrip(t) == IF t # <<>> /\ IsSpace(t[Len(t)]) THEN RStrip(SubSeq(t, 1, Len(t) - 1)) ELSE t

\* str.strip()
Strip(t) == RStrip(LStrip(t))

\* ':SYST:ERR?' and the other lines as the caller's strings; a written line is the string
\* and the terminator after it.
Framed(string) == <<string, line_terminator>>

\* The state of the transport and the outcome of an operation on it.  value is <<>> when
\* nothing is returned and <<v>> when v is.
Outcome(buf, fl, ws, outcome, value, logged) ==
    [inbuf |-> buf, inflight |-> fl, writes |-> ws, outcome |-> outcome,
     value |-> value, logged |-> logged, response |-> <<>>]

\* write_to_serial(string): the line goes out and the device's reply is on its way.
WriteBytes(buf, fl, string, reply) ==
    Outcome(buf, fl \o reply, <<Framed(string)>>, "ok", <<>>, <<>>)

\* read_from_serial(): every byte waiting and those that arrive while it polls (n of them,
\* or all that are on their way when those are fewer), decoded and stripped.
ReadBytes(buf, fl, n) ==
    LET k == Min(n, Len(fl))
        output == buf \o SubSeq(fl, 1, k)
        rest == SubSeq(fl, k + 1, Len(fl))
    IN  IF Utf8Valid(output)
        THEN Outcome(<<>>, rest, <<>>, "ok", <<Strip(Utf8Decode(output))>>, <<>>)
        ELSE Outcome(<<>>, rest, <<>>, DecodeError, <<>>, <<>>)

\* '+0,"No error"'
NoError == <<43, 48, 44, 34, 78, 111, 32, 101, 114, 114, 111, 114, 34>>

\* write_to_serial and read_from_serial on the transport as the operation t left it.
WriteNext(t, string, reply) == WriteBytes(t.inbuf, t.inflight, string, reply)

ReadNext(t, n) == ReadBytes(t.inbuf, t.inflight, n)

\* What query_serial prints: the error read, unless it is '' or '+0,"No error"'.
Logged(error) ==
    IF error.value # <<<<>>>> /\ error.value # <<NoError>> THEN error.value ELSE <<>>

\* What query_serial comes to, given its write w and read response, and under debug the
\* write w2 of the error query and the read error of its reply.
QueryReturn(w, response, w2, error) ==
    IF response.outcome # "ok"
    THEN Outcome(response.inbuf, response.inflight, w.writes, response.outcome, <<>>, <<>>)
    ELSE IF ~debug
    THEN Outcome(response.inbuf, response.inflight, w.writes, "ok", response.value, <<>>)
    ELSE IF error.outcome # "ok"
    THEN Outcome(error.inbuf, error.inflight, w.writes \o w2.writes, error.outcome, <<>>, <<>>)
    ELSE Outcome(error.inbuf, error.inflight, w.writes \o w2.writes, "ok", response.value,
                 Logged(error))

\* query_serial(string)
QueryBytes(buf, fl, string, reply, n, errReply, m) ==
    LET w == WriteBytes(buf, fl, string, reply)
        response == ReadNext(w, n)
        w2 == WriteNext(response, ":SYST:ERR?", errReply)
        error == ReadNext(w2, m)
    IN  QueryReturn(w, response, w2, error)

\* write_to_serial(string) and then read_from_serial(), as a caller would perform them.
WriteThenRead(buf, fl, string, reply, n) ==
    LET w == WriteBytes(buf, fl, string, reply)
        r == ReadBytes(w.inbuf, w.inflight, n)
    IN  [outcome |-> r.outcome, value |-> r.value]

(***************************************************************************)
(* Multimeter.  float() is modelled on the texts the replies above hold:   *)
(* an optional sign, digits with at most one point, an optional exponent,  *)
(* white space around.  A number is m * 10^e with m not a multiple of ten. *)
(***************************************************************************)

IsDigit(c) == c \in 48 .. 57

AllDigits(t) == \A i \in DOMAIN t : IsDigit(t[i])

\* The index of the first element of t in S, 0 when there is none.
IndexOf(t, S) ==
    IF \E i \in DOMAIN t : t[i] \in S
    THEN CHOOSE i \in DOMAIN t : t[i] \in S /\ \A j \in 1 .. i - 1 : t[j] \notin S
    ELSE 0

\* str.split(',')
RECURSIVE Split(_)
Split(t) ==
    LET k == IndexOf(t, {44})
    IN  IF k = 0 THEN <<t>>
        ELSE <<SubSeq(t, 1, k - 1)>> \o Split(SubSeq(t, k + 1, Len(t)))

Unsigned(t) == IF t # <<>> /\ Head(t) \in {43, 45} THEN Tail(t) ELSE t

\* The parts of a text float() is given: sign, integer digits, fraction digits, exponent.
FloatParts(t) ==
    LET s == Strip(t)
        u == Unsigned(s)
        k == IndexOf(u, {69, 101})
        mant == IF k = 0 THEN u ELSE SubSeq(u, 1, k - 1)
        d == IndexOf(mant, {46})
    IN  [neg |-> s # <<>> /\ Head(s) = 45,
         int |-> IF d = 0 THEN mant ELSE SubSeq(mant, 1, d - 1),
         frac |-> IF d = 0 THEN <<>> ELSE SubSeq(mant, d + 1, Len(mant)),
         hasExp |-> k # 0,
         exp |-> IF k = 0 THEN <<>> ELSE SubSeq(u, k + 1, Len(u))]

\* Whether float(t) returns rather than raising ValueError.
IsFloat(t) ==
    LET p == FloatParts(t)
    IN  /\ AllDigits(p.int) /\ AllDigits(p.frac)
        /\ Len(p.int) + Len(p.frac) >= 1
        /\ p.hasExp => (Unsigned(p.exp) # <<>> /\ AllDigits(Unsigned(p.exp)))

RECURSIVE DigitsValue(_)
DigitsValue(t) ==
    IF t = <<>> THEN 0
    ELSE 10 * DigitsValue(SubSeq(t, 1, Len(t) - 1)) + (t[Len(t)] - 48)

RECURSIVE Normal(_, _)
Normal(m, e) ==
    IF m = 0 THEN [m |-> 0, e |-> 0]
    ELSE IF m % 10 = 0 THEN Normal(m \div 10, e + 1)
    ELSE [m |-> m, e |-> e]

\* float(t) of a text float() accepts.
Float(t) ==
    LET p == FloatParts(t)
        m == DigitsValue(p.int \o p.frac)
        x == DigitsValue(Unsigned(p.exp))
        e == IF p.exp # <<>> /\ Head(p.exp) = 45 THEN -x ELSE x
    IN  Normal(IF p.neg THEN -m ELSE m, e - Len(p.frac))

\* AppendFloats passing over a sample float() rejects instead of raising.
RECURSIVE AppendFloatsLenient(_, _)
AppendFloatsLenient(sampleresult, samples) ==
    IF samples = <<>> THEN [raised |-> FALSE, sampleresult |-> sampleresult]
    ELSE IF ~IsFloat(Head(samples)) THEN AppendFloatsLenient(sampleresult, Tail(samples))
    ELSE AppendFloatsLenient(Append(sampleresult, Float(Head(samples))), Tail(samples))

\* The loop `for sample in samples: sampleresult.append(float(sample))`:
\* the list so far, and whether a float() raised.
RECURSIVE AppendFloats(_, _)
AppendFloats(sampleresult, samples) ==
    IF samples = <<>> THEN [raised |-> FALSE, sampleresult |-> sampleresult]
    ELSE IF ~IsFloat(Head(samples)) THEN [raised |-> TRUE, sampleresult |-> sampleresult]
    ELSE AppendFloats(Append(sampleresult, Float(Head(samples))), Tail(samples))

\* What measure_vdc and measure_adc make of the text query_serial('read?') returned.
Samples(response, samp) ==
    LET all == AppendFloats(<<>>, Split(response))
    IN  IF samp = 1
        THEN (IF IsFloat(response) THEN [outcome |-> "ok", value |-> <<Float(response)>>]
              ELSE [outcome |-> "ValueError", value |-> <<>>])
        ELSE (IF all.raised THEN [outcome |-> "ValueError", value |-> <<>>]
              ELSE [outcome |-> "ok", value |-> <<all.sampleresult>>])

\* What a measurement returns or raises, given the lines ws it wrote before its query, the
\* outcome q of the query, and what float() made of the response.
MeasureReturn(ws, q, parsed) ==
    IF q.outcome # "ok"
    THEN [Outcome(q.inbuf, q.inflight, ws \o q.writes, q.outcome, <<>>, q.logged)
             EXCEPT !.response = <<>>]
    ELSE [Outcome(q.inbuf, q.inflight, ws \o q.writes, parsed.outcome, parsed.value, q.logged)
             EXCEPT !.response = q.value]

\* The float or the list of floats of the query's response, when the query returned one.
Parsed(q, samp) ==
    IF q.outcome = "ok" THEN Samples(q.value[1], samp)
    ELSE [outcome |-> q.outcome, value |-> <<>>]

\* The query of a measurement and what becomes of it.
MeasureQuery(ws, q, samp) == MeasureReturn(ws, q, Parsed(q, samp))

\* measure_vdc / measure_adc: conf is the line configure_vdc or configure_adc writes, then
\* the sample count, then the read.  The device replies to read? alone.
Measure(buf, fl, conf, samp, reply, n, errReply, m) ==
    LET c == WriteBytes(buf, fl, conf, <<>>)
        k == WriteNext(c, ":samp:coun " \o ToString(samp), <<>>)
    IN  MeasureQuery(c.writes \o k.writes,
                     QueryBytes(k.inbuf, k.inflight, "read?", reply, n, errReply, m), samp)

\* ':conf:volt:dc ' + str(rng) + ',' + str(res)
ConfigureVdc(rng, res) == ":conf:volt:dc " \o rng \o "," \o res

\* ':conf:curr:dc ' + str(rng) + ',' + str(res)
ConfigureAdc(rng, res) == ":conf:curr:dc " \o rng \o "," \o res

\* str() of the range and resolution the measurements are made with.
Settings == {<<"DEF", "DEF">>, <<"10", "0.001">>}

\* The sample counts the measurements are made with.
SampleCounts == {1, 3}

\* The record of an operation: its kind and arguments beside its outcome.
Done(kind, string, samp, out, ref) ==
    [kind |-> kind, string |-> string, samp |-> samp, writes |-> out.writes,
     outcome |-> out.outcome, value |-> out.value, logged |-> out.logged,
     response |-> out.response, ref |-> ref]

NoRef == [outcome |-> "ok", value |-> <<>>]

Backlog == Len(inbuf) + Len(inflight)

\* Bytes on their way reach the input buffer between two operations.
Deliver(k) ==
    /\ k \in 1 .. Len(inflight)
    /\ inbuf = <<>>
    /\ inbuf' = inbuf \o SubSeq(inflight, 1, k)
    /\ inflight' = SubSeq(inflight, k + 1, Len(inflight))
    /\ UNCHANGED <<lastQ, debug, ser, handles, lastOp, psCache, dev, calls>>

Finish(kind, string, samp, out, ref) ==
    /\ inbuf' = out.inbuf
    /\ inflight' = out.inflight
    /\ lastQ' = Done(kind, string, samp, out, ref)
    /\ UNCHANGED <<debug, ser, handles, lastOp, psCache, dev, calls>>

write_to_serial(string, reply) ==
    /\ Backlog <= MaxBacklog
    /\ Finish("write_to_serial", string, 0, WriteBytes(inbuf, inflight, string, reply), NoRef)

read_from_serial(n) ==
    Finish("read_from_serial", "", 0, ReadBytes(inbuf, inflight, n), NoRef)

query_serial(string, reply, n, errReply, m) ==
    /\ Backlog <= MaxBacklog
    /\ Finish("query_serial", string, 0,
              QueryBytes(inbuf, inflight, string, reply, n, errReply, m),
              WriteThenRead(inbuf, inflight, string, reply, n))

measure_vdc(rng, res, samp, reply, n, errReply, m) ==
    /\ Backlog <= MaxBacklog
    /\ Finish("measure_vdc", ConfigureVdc(rng, res), samp,
              Measure(inbuf, inflight, ConfigureVdc(rng, res), samp, reply, n, errReply, m),
              NoRef)

measure_adc(rng, res, samp, reply, n, errReply, m) ==
    /\ Backlog <= MaxBacklog
    /\ Finish("measure_adc", ConfigureAdc(rng, res), samp,
              Measure(inbuf, inflight, ConfigureAdc(rng, res), samp, reply, n, errReply, m),
              NoRef)

(***************************************************************************)
(* The specifications                                                      *)
(***************************************************************************)

NoOp == Op("none", NoHandle, NoHandle, None, Result(None, <<>>, "ok", None), NoHandle)

NoQ == Done("none", "", 0, Outcome(<<>>, <<>>, <<>>, "ok", <<>>, <<>>), NoRef)

HandlesIdle ==
    /\ ser = [p \in Ports |-> "absent"]
    /\ handles = [h \in Handles |-> FreeSlot]
    /\ lastOp = NoOp

PowerSupplyIdle ==
    /\ psCache = PowerSupplyInit
    /\ dev = DeviceReset
    /\ calls = <<>>

BytesIdle ==
    /\ inbuf = <<>>
    /\ inflight = <<>>
    /\ lastQ = NoQ

\* No handle constructed yet; debug is True as the module sets it, or False as a caller
\* of the module may set it.
Init ==
    /\ debug \in BOOLEAN
    /\ HandlesIdle /\ PowerSupplyIdle /\ BytesIdle

Next ==
    \/ \E p \in Ports, opened \in BOOLEAN, reply \in IdentityReplies, errReply \in ErrorReplies :
          Open(p, opened, reply, errReply)
    \/ \E h \in Handles, reopened \in BOOLEAN, reply \in IdentityReplies, errReply \in ErrorReplies :
          ClassifyInstrument(h, reopened, reply, errReply)
    \/ \E h \in Handles, cmd \in CallerLines : WriteToSerial(h, cmd)
    \/ \E h \in Handles, reply \in TextReplies : ReadFromSerial(h, reply)
    \/ \E h \in Handles, cmd \in CallerLines, reply \in TextReplies, errReply \in ErrorReplies :
          QuerySerial(h, cmd, reply, errReply)
    \/ \E h \in Handles, p \in Ports : DisplayText(h, PortLabel(p))
    \/ \E h \in Handles : SetLocal(h)
    \/ \E h \in Handles : SetRemote(h)
    \/ \E h \in Handles, reply \in IdentityReplies, errReply \in ErrorReplies :
          GetIdentity(h, reply, errReply)
    \/ \E h \in Handles : Reset(h)
    \/ \E h \in Handles : Teardown(h)

Spec == Init /\ [][Next]_vars

\* A power supply just constructed on an open transport, the device just reset.
InitPS ==
    /\ debug = TRUE
    /\ HandlesIdle /\ PowerSupplyIdle /\ BytesIdle

NextPS ==
    \/ \E v \in Values, port \in outputs : set_output_voltage(v, port)
    \/ \E i \in Values, port \in outputs : set_output_current(i, port)

SpecPS == InitPS /\ [][NextPS]_vars

\* A handle on an open transport, nothing waiting and nothing on its way.
InitQuery ==
    /\ debug \in BOOLEAN
    /\ HandlesIdle /\ PowerSupplyIdle /\ BytesIdle

NextQuery ==
    \/ \E string \in UserCommands, reply \in Replies : write_to_serial(string, reply)
    \/ \E n \in Arrivals(Len(inflight)) : read_from_serial(n)
    \/ \E string \in UserCommands, reply \in Replies, errReply \in ErrorRepliesBytes :
          \E n \in Arrivals(Len(inflight) + Len(reply)) :
              \E m \in Arrivals(Len(inflight) + Len(reply) + Len(errReply) - n) :
                  query_serial(string, reply, n, errReply, m)
    \/ \E k \in Arrivals(Len(inflight)) : Deliver(k)

SpecQuery == InitQuery /\ [][NextQuery]_vars

\* A multimeter on an open transport, nothing waiting and nothing on its way.
InitMeasure ==
    /\ debug \in BOOLEAN
    /\ HandlesIdle /\ PowerSupplyIdle /\ BytesIdle

NextMeasure ==
    \/ \E cfg \in Settings, samp \in SampleCounts, reply \in MeasureReplies,
          errReply \in ErrorRepliesBytes :
          \E n \in Arrivals(Len(inflight) + Len(reply)) :
              \E m \in Arrivals(Len(inflight) + Len(reply) + Len(errReply) - n) :
                  measure_vdc(cfg[1], cfg[2], samp, reply, n, errReply, m)
    \/ \E cfg \in Settings, samp \in SampleCounts, reply \in MeasureReplies,
          errReply \in ErrorRepliesBytes :
          \E n \in Arrivals(Len(inflight) + Len(reply)) :
              \E m \in Arrivals(Len(inflight) + Len(reply) + Len(errReply) - n) :
                  measure_adc(cfg[1], cfg[2], samp, reply, n, errReply, m)
    \/ \E n \in Arrivals(Len(inflight)) : read_from_serial(n)
    \/ \E k \in Arrivals(Len(inflight)) : Deliver(k)

SpecMeasure == InitMeasure /\ [][NextMeasure]_vars

(***************************************************************************)
(* The claims                                                              *)
(***************************************************************************)

\* The range a value calls for: low when |value| < 8.0, high otherwise.
TargetRange(v) == IF Abs(v) < RangeThreshold THEN "low" ELSE "high"

IsVoltageCall(k, v, port) ==
    calls[k].op = "set_output_voltage" /\ calls[k].value = v /\ calls[k].port = port

RangeLines == {":volt:rang low", ":volt:rang high"}

\* C1 (as claimed; SpecPS): on a power supply just constructed, set_output_voltage(5.0, out1),
\* (6.0, out1), (9.0, out1) write four lines, then one, then two.
C1_FourOneTwoWrites ==
    (/\ Len(calls) >= 3
     /\ IsVoltageCall(1, 5, "out1") /\ IsVoltageCall(2, 6, "out1") /\ IsVoltageCall(3, 9, "out1"))
    => /\ calls[1].writes = <<":volt:rang low", ":outp:stat on", ":inst:sel out1", ":volt 5.0">>
       /\ calls[2].writes = <<":volt 6.0">>
       /\ calls[3].writes = <<":volt:rang high", ":volt 9.0">>

\* C2 (SpecPS): after any calls of set_output_voltage and set_output_current the cached
\* enabled flag of both outputs is false, every set_output_voltage has written
\* ':outp:stat on' once and every set_output_current twice.
C2_EnabledFlagStaysFalse ==
    /\ \A p \in outputs : psCache.output_state[p] = FALSE
    /\ \A k \in DOMAIN calls :
          /\ \A p \in outputs : calls[k].post.output_state[p] = FALSE
          /\ Count(calls[k].writes, ":outp:stat on")
                = IF calls[k].op = "set_output_voltage" THEN 1 ELSE 2

\* C2's case: a set_output_current and a set_output_voltage after it on the same output.
C2_Witness ==
    /\ Len(calls) >= 2
    /\ calls[1].op = "set_output_current"
    /\ calls[2].op = "set_output_voltage" /\ calls[2].port = calls[1].port

\* C3 (SpecPS): a set_output_voltage(value, port) writes a range line exactly when the
\* range the value calls for differs from the cached range, a select line exactly when the
\* port differs from the cached selection, the voltage line last, and leaves that range and
\* that port in the cache.
C3_RangeAndSelectionCached ==
    \A k \in DOMAIN calls :
        calls[k].op = "set_output_voltage" =>
            LET c == calls[k] IN
            /\ Has(c.writes, ":volt:rang " \o TargetRange(c.value))
                  <=> TargetRange(c.value) # c.pre.voltage_output_range
            /\ \A i \in DOMAIN c.writes :
                  c.writes[i] \in RangeLines => c.writes[i] = ":volt:rang " \o TargetRange(c.value)
            /\ Has(c.writes, ":inst:sel " \o c.port) <=> c.port # c.pre.selected_output
            /\ \A p \in outputs \ {c.port} : ~Has(c.writes, ":inst:sel " \o p)
            /\ Last(c.writes) = ":volt " \o Str(c.value)
            /\ Count(c.writes, ":volt " \o Str(c.value)) = 1
            /\ c.post.voltage_output_range = TargetRange(c.value)
            /\ c.post.selected_output = c.port

\* C3's case: a call that changes the range to high at the threshold itself and keeps the
\* selection, after one that set both.
C3_Witness ==
    /\ Len(calls) >= 2
    /\ IsVoltageCall(1, 5, "out1")
    /\ IsVoltageCall(2, 8, "out1")
    /\ calls[2].writes = <<":volt:rang high", ":outp:stat on", ":volt 8.0">>

\* C10 (as claimed; SpecPS): every range and output-on line of a set_output_voltage(value,
\* port) reaches the device while port is its selected output, and on return the device's
\* range of that port is the one the value calls for.
C10_LinesReachTheirOutput ==
    \A k \in DOMAIN calls :
        calls[k].op = "set_output_voltage" =>
            LET c == calls[k] IN
            /\ \A i \in DOMAIN c.writes :
                  c.writes[i] \in RangeLines \cup {":outp:stat on"} => c.selectedAt[i] = c.port
            /\ c.devRange = TargetRange(c.value)

\* C4 (as claimed; SpecQuery): query_serial(cmd) returns what read_from_serial() returns when
\* performed right after write_to_serial(cmd) on the same transport, whatever the reply to
\* the error query.
C4_QueryIsWriteThenRead ==
    lastQ.kind = "query_serial" =>
        /\ lastQ.outcome = lastQ.ref.outcome
        /\ lastQ.value = lastQ.ref.value

\* C9 (SpecMeasure): measure_vdc writes the configuration line, the sample count and the
\* read query in that order; when the query returns a response, a sample count of 1 gives
\* the float of the response and a greater one the floats of its comma-separated fields in
\* order, and a field float() rejects makes the call raise ValueError and return nothing.
C9_MeasureVdcParses ==
    lastQ.kind = "measure_vdc" =>
        /\ Len(lastQ.writes) >= 3
        /\ \E cfg \in Settings :
              lastQ.writes[1] = Framed(":conf:volt:dc " \o cfg[1] \o "," \o cfg[2])
        /\ lastQ.writes[2] = Framed(":samp:coun " \o ToString(lastQ.samp))
        /\ lastQ.writes[3] = Framed("read?")
        /\ lastQ.response = <<>> => lastQ.outcome = DecodeError /\ lastQ.value = <<>>
        /\ lastQ.response # <<>> =>
              LET text == lastQ.response[1]
                  fields == Split(text)
              IN  IF lastQ.samp = 1
                  THEN IF IsFloat(text)
                       THEN lastQ.outcome = "ok" /\ lastQ.value = <<Float(text)>>
                       ELSE lastQ.outcome = "ValueError" /\ lastQ.value = <<>>
                  ELSE IF \A i \in DOMAIN fields : IsFloat(fields[i])
                       THEN /\ lastQ.outcome = "ok"
                            /\ lastQ.value = <<[i \in DOMAIN fields |-> Float(fields[i])]>>
                       ELSE lastQ.outcome = "ValueError" /\ lastQ.value = <<>>

\* C9's case: three samples asked for, the response '1.0,bad,3.0' read whole, ValueError.
C9_Witness ==
    /\ lastQ.kind = "measure_vdc" /\ lastQ.samp = 3
    /\ lastQ.response = <<<<49, 46, 48, 44, 98, 97, 100, 44, 51, 46, 48>>>>
    /\ lastQ.outcome = "ValueError"

Adopted(h) == handles[h].port = None

\* C5 (as claimed; Spec): the teardown of a handle that adopted its transport leaves the
\* transport as it was, open if it was open.
C5_AdoptedTeardownLeavesOpen ==
    (lastOp.kind = "teardown" /\ Adopted(lastOp.handle))
    => ser[handles[lastOp.handle].ser] = lastOp.before

\* C6 (Spec): the teardown of a handle whose transport is open writes the local-mode line
\* last and closes the transport; a teardown on a transport already closed writes nothing,
\* raises nothing and leaves it closed.
C6_TeardownCloses ==
    lastOp.kind = "teardown" =>
        /\ lastOp.outcome = "ok"
        /\ ser[handles[lastOp.handle].ser] = "closed"
        /\ IF lastOp.before = "open"
           THEN lastOp.writes # <<>> /\ Last(lastOp.writes) = ":SYST:LOC"
           ELSE lastOp.writes = <<>>

\* C6's case: the second teardown on a transport two handles share.
C6_Witness ==
    /\ lastOp.kind = "teardown" /\ lastOp.before = "closed"
    /\ \E h \in Handles \ {lastOp.handle} :
          handles[h].state = "released" /\ handles[h].ser = handles[lastOp.handle].ser

Constructions == {"open", "classify"}

\* Where the identity query stands among the lines of a construction.
IdentityIndex(ws) == CHOOSE i \in DOMAIN ws : ws[i] = "*IDN?"

\* The lines of a construction that ran to its end: set-remote first, then the display line
\* exactly under debug with a port name, then the identity query, whose reply is cached.
ConstructionInOrder ==
    (lastOp.kind \in Constructions /\ lastOp.outcome = "ok") =>
        LET h == lastOp.new
            shown == debug /\ handles[h].port # None
        IN  /\ Head(lastOp.writes) = ":SYST:REM"
            /\ Count(lastOp.writes, "*IDN?") = 1
            /\ IdentityIndex(lastOp.writes) = IF shown THEN 3 ELSE 2
            /\ shown => lastOp.writes[2] = DisplayLine(PortLabel(handles[h].port))
            /\ handles[h].identity = lastOp.value

\* C7 (as claimed; Spec): a construction writes set-remote, optionally the display line,
\* then the identity query, and no operation after it writes the identity query again.
C7_NoLaterIdentityQuery ==
    /\ ConstructionInOrder
    /\ lastOp.kind \notin Constructions => ~Has(lastOp.writes, "*IDN?")

\* A handle keeps the identity it has for as long as it lives.
IdentityKept ==
    \A h \in Handles :
        (handles[h].state = "live" /\ handles'[h].state = "live")
        => handles'[h].identity = handles[h].identity

\* The operations that write the line their caller hands them.
CallerWrites == {"write_to_serial", "query_serial"}

\* C7 (amended; Spec): a construction writes set-remote, optionally the display line, then
\* the identity query; the identity cached then is never changed while the handle lives;
\* and of the later operations only get_identity, and a write or query the caller hands
\* the identity query to, writes it again.
C7_IdentityCachedOnce ==
    /\ [](ConstructionInOrder
          /\ (Has(lastOp.writes, "*IDN?")
                => lastOp.kind \in Constructions \cup CallerWrites \cup {"get_identity"})
          /\ (lastOp.kind \in CallerWrites /\ Has(lastOp.writes, "*IDN?")
                => Head(lastOp.writes) = "*IDN?"))
    /\ [][IdentityKept]_vars

\* C7's case: get_identity on a live handle is answered with another identity than the one
\* the handle cached.
C7_Witness ==
    /\ lastOp.kind = "get_identity" /\ lastOp.outcome = "ok"
    /\ Has(lastOp.writes, "*IDN?")
    /\ lastOp.value # handles[lastOp.handle].identity

\* C8 (Spec): classify_instrument goes by the cached identity alone: an identity in one of
\* the three lists gives a handle of that list's class on the same transport, an identity
\* in none gives None and touches nothing, and the three lists are disjoint.
C8_ClassifiedByIdentity ==
    /\ multimeters \cap function_generators = {}
    /\ multimeters \cap power_supplies = {}
    /\ function_generators \cap power_supplies = {}
    /\ lastOp.kind = "classify" =>
          LET id == handles[lastOp.handle].identity
              n == lastOp.new
              made(cls) == /\ n # NoHandle
                           /\ handles[n].cls = cls
                           /\ handles[n].ser = handles[lastOp.handle].ser
                           /\ lastOp.outcome = "ok" => handles[n].state = "live"
          IN  /\ id \in multimeters => made("Multimeter")
              /\ id \in function_generators => made("FunctionGenerator")
              /\ id \in power_supplies => made("PowerSupply")
              /\ id \notin multimeters \cup function_generators \cup power_supplies =>
                    n = NoHandle /\ lastOp.outcome = "none" /\ lastOp.writes = <<>>

\* C8's case: a handle whose identity is the power supply's is classified.
C8_Witness ==
    /\ lastOp.kind = "classify" /\ lastOp.outcome = "ok"
    /\ handles[lastOp.handle].identity \in power_supplies
    /\ handles[lastOp.new].cls = "PowerSupply"

====
